---------------------------- MODULE Spec2Model ----------------------------
(***************************************************************************)
(* dr-get-dicom: the discovery-and-retrieval pipeline of getOneDicom, the  *)
(* main loop that drains it, and the path and archive decisions of         *)
(* downloadDicom.                                                          *)
(*                                                                         *)
(* Strings are sequences of one-character strings, so that the regular     *)
(* expression, filepath.Dir, filepath.Ext, strings.Contains and            *)
(* strings.Index are computed character by character.                      *)
(***************************************************************************)
EXTENDS Integers, Sequences, FiniteSets, Bags, TLC

(***************************************************************************)
(* Strings and the Go library functions the program calls                  *)
(***************************************************************************)

Digits == {"0", "1", "2", "3", "4", "5", "6", "7", "8", "9"}

\* s[i..] (Go s[i-1:]), empty when i is past the end
From(s, i) == SubSeq(s, i, Len(s))

\* strings.HasPrefix(From(s, i), sub): sub occurs in s at position i
OccursAt(s, sub, i) ==
    /\ i >= 1
    /\ i + Len(sub) - 1 <= Len(s)
    /\ SubSeq(s, i, i + Len(sub) - 1) = sub

\* the first position from i on at which sub occurs in s, or 0
RECURSIVE IndexFrom(_, _, _)
IndexFrom(s, sub, i) ==
    IF i + Len(sub) - 1 > Len(s) THEN 0
    ELSE IF OccursAt(s, sub, i) THEN i
    ELSE IndexFrom(s, sub, i + 1)

\* strings.Index(s, sub), 1-based; 0 stands for Go's -1
Index(s, sub) == IndexFrom(s, sub, 1)

\* strings.Contains(s, sub)
Contains(s, sub) == Index(s, sub) > 0

\* strings.HasSuffix(s, suf)
HasSuffix(s, suf) == Len(s) >= Len(suf) /\ OccursAt(s, suf, Len(s) - Len(suf) + 1)

\* the last position up to i at which s holds character ch, or 0
RECURSIVE LastFrom(_, _, _)
LastFrom(s, ch, i) ==
    IF i = 0 THEN 0
    ELSE IF s[i] = ch THEN i
    ELSE LastFrom(s, ch, i - 1)

\* position of the last "/" of s, 0 when there is none
LastSlash(s) == LastFrom(s, "/", Len(s))

\* the "/"-separated elements of s from position i on, empty ones included,
\* cur being the part of the current element already read
RECURSIVE ElementsFrom(_, _, _)
ElementsFrom(s, i, cur) ==
    IF i > Len(s) THEN <<cur>>
    ELSE IF s[i] = "/" THEN <<cur>> \o ElementsFrom(s, i + 1, <<>>)
    ELSE ElementsFrom(s, i + 1, Append(cur, s[i]))

Elements(s) == ElementsFrom(s, 1, <<>>)

\* the elements joined by "/"
RECURSIVE JoinElements(_)
JoinElements(es) ==
    IF es = <<>> THEN <<>>
    ELSE IF Len(es) = 1 THEN es[1]
    ELSE es[1] \o <<"/">> \o JoinElements(Tail(es))

\* filepath.Clean's element pass: "" and "." are dropped, ".." removes the
\* element before it, is dropped at the root and kept at the start of a
\* relative path
RECURSIVE CleanElements(_, _, _)
CleanElements(es, out, rooted) ==
    IF es = <<>> THEN out
    ELSE LET e == Head(es) IN
         IF e = <<>> \/ e = <<".">> THEN CleanElements(Tail(es), out, rooted)
         ELSE IF e = <<".", ".">>
              THEN IF out # <<>> /\ out[Len(out)] # <<".", ".">>
                   THEN CleanElements(Tail(es), SubSeq(out, 1, Len(out) - 1), rooted)
                   ELSE IF rooted
                        THEN CleanElements(Tail(es), out, rooted)
                        ELSE CleanElements(Tail(es), Append(out, e), rooted)
              ELSE CleanElements(Tail(es), Append(out, e), rooted)

\* filepath.Clean(s)
Clean(s) ==
    IF s = <<>> THEN <<".">>
    ELSE LET rooted == s[1] = "/"
             body   == JoinElements(CleanElements(Elements(s), <<>>, rooted))
         IN  IF rooted THEN <<"/">> \o body
             ELSE IF body = <<>> THEN <<".">> ELSE body

\* filepath.Dir(s): all but the last element of s, cleaned
Dir(s) == Clean(SubSeq(s, 1, LastSlash(s)))

\* filepath.Base(s): the last element of s, trailing slashes removed
RECURSIVE Base(_)
Base(s) ==
    IF s = <<>> THEN <<".">>
    ELSE IF s[Len(s)] = "/"
         THEN IF Len(s) = 1 THEN <<"/">> ELSE Base(SubSeq(s, 1, Len(s) - 1))
         ELSE From(s, LastSlash(s) + 1)

\* filepath.Ext(s): the suffix from the last "." of the last element, or ""
Ext(s) ==
    LET last == From(s, LastSlash(s) + 1)
        dot  == LastFrom(last, ".", Len(last))
    IN  IF dot = 0 THEN <<>> ELSE From(last, dot)

\* filepath.Join(a, b) of two non-empty parts
Join(a, b) == Clean(a \o <<"/">> \o b)

\* regexp.MatchString("[0-9]{3}-.*", line): three digits and a "-" anywhere
MatchSeries(line) ==
    \E i \in 1..(Len(line) - 3) :
        /\ line[i] \in Digits
        /\ line[i + 1] \in Digits
        /\ line[i + 2] \in Digits
        /\ line[i + 3] = "-"

\* no path taken for a zip file
isZipFileNever(path) == FALSE

\* isZipFile(path)
isZipFile(path) == Ext(path) = <<".", "z", "i", "p">>

\* isImaFile(path)
isImaFile(path) == Ext(path) = <<".", "I", "M", "A">>


(***************************************************************************)
(* Program constants and command-line options                              *)
(***************************************************************************)

\* MAX_DOWNLOAD_W, the number of workers of each pool
MAX_DOWNLOAD_W == 4

\* DR_NS_COLLS, the catch-all collections main walks through, in order
DR_NS_COLLS == << <<"D", "A", "C", "_", "4", "9", "0">>,
                  <<"D", "A", "C", "_", "1", "7", "3">> >>

\* *opts_date, the -t option: a date YYYYmmdd
opts_date == <<"2", "0", "2", "4", "0", "1", "0", "1">>

\* *opts_ddir, the -d option: the local root directory
opts_ddir == <<"/", "d">>

\* the marker iquest prints in the place of a row when a query matches nothing
NoRows == <<"C", "A", "T", "_", "N", "O", "_", "R", "O", "W", "S", "_",
            "F", "O", "U", "N", "D">>

(***************************************************************************)
(* Go channels: a buffer, a capacity implied by the place of use, and the  *)
(* closed flag.  A send on a closed channel and a second close panic.      *)
(***************************************************************************)

NewChan == [buf |-> <<>>, closed |-> FALSE]

\* v, ok := <-ch can proceed with ok = true
CanRecv(ch) == ch.buf # <<>>

\* v, ok := <-ch proceeds with ok = false: closed and drained
RecvClosed(ch) == ch.buf = <<>> /\ ch.closed

\* a channel that takes any number of values
CanSendAlways(ch, cap) == TRUE

\* ch <- v can proceed (to a panic when ch is closed)
CanSend(ch, cap) == ch.closed \/ Len(ch.buf) < cap

Sent(ch, v) == [ch EXCEPT !.buf = Append(@, v)]

Recvd(ch) == [ch EXCEPT !.buf = Tail(@)]

Closed(ch) == [ch EXCEPT !.closed = TRUE]

\* the bag b with one copy of w replaced by w2
Replace(b, w, w2) == (b (-) SetToBag({w})) (+) SetToBag({w2})

\* n copies of w
Copies(w, n) == [x \in {w} |-> n]

\* the number of workers of a pool that are at position pc
At(pool, pc) ==
    LET S == {w \in BagToSet(pool) : w.pc = pc}
    IN  BagCardinality([w \in S |-> CopiesIn(w, pool)])

(***************************************************************************)
(* State                                                                   *)
(***************************************************************************)

VARIABLES
    mainPc,     \* main: "call" getOneDicom, "range" over its channel, "exit"
    coll,       \* main: the index in DR_NS_COLLS of the loop variable coll
    pipes,      \* one record per getOneDicom call made so far: its channels,
                \* its goroutines and the commands it has started
    panic,      \* "none", or why the process died
    call        \* one call of downloadDicom taken by itself: what it is given
                \* and finds, and once it has returned what it has done

vars == <<mainPc, coll, pipes, panic, call>>

\* a goroutine of the file-selection pool as it is started.  listing and
\* sent record the rows of its last query and what it forwarded of them
Worker1 == [pc |-> "recv", c |-> <<>>, rows |-> <<>>, listing |-> <<>>, sent |-> <<>>]

\* a goroutine of the retrieval pool as it is started.  tries counts the
\* times iget has been started for the file f in hand
Worker2 == [pc |-> "recv", f |-> <<>>, loc |-> <<>>, fdicom |-> <<>>, tries |-> 0]

\* a closer goroutine inside waitWorkers, before its first receive
Closer == [pc |-> "wait", i |-> 0]

\* the state getOneDicom(ns_coll) leaves behind when it returns: the scan
\* command started, the channels made, every goroutine at its first statement
NewPipeline(ns_coll) ==
    [ ns_coll   |-> ns_coll,
      \* the iquest scan command and its streams
      cmdLines  |-> 0,          \* lines printed so far
      cmdExited |-> FALSE,
      Stdout    |-> <<>>,
      Stderr    |-> 0,          \* lines waiting on iquestCmdC.Stderr
      s         |-> <<>>,       \* the status channel
      \* the discovery goroutine
      scanPc    |-> "select",
      line      |-> <<>>,
      m         |-> 0,
      collMap   |-> {},
      mutex     |-> FALSE,      \* held
      chanColls |-> NewChan,
      \* the file-selection pool and its closer
      pool1     |-> Copies(Worker1, MAX_DOWNLOAD_W),
      chanSync1 |-> NewChan,
      closer1   |-> Closer,
      chanFiles |-> NewChan,
      \* the retrieval pool and its closer
      pool2     |-> Copies(Worker2, MAX_DOWNLOAD_W),
      chanSync2 |-> NewChan,
      closer2   |-> Closer,
      chanDicoms |-> NewChan,
      \* history: the lines the discovery goroutine has received and the lines
      \* it has sent; the paths downloadDicom has returned with a nil error
      \* that main has not received yet, and the paths main has received for
      \* which no return of downloadDicom was outstanding
      scanned   |-> <<>>,
      forwarded |-> <<>>,
      owed      |-> EmptyBag,
      surplus   |-> EmptyBag ]

\* no call of downloadDicom is looked at by itself
NoCall == [pc |-> "none"]

Init ==
    /\ mainPc = "call"
    /\ coll = 1
    /\ pipes = <<>>
    /\ panic = "none"
    /\ call = NoCall

Alive == panic = "none"

\* pipeline r becomes q, nothing else changes
Put(r, q) ==
    /\ pipes' = [pipes EXCEPT ![r] = q]
    /\ UNCHANGED <<mainPc, coll, panic, call>>

\* the process dies of a run-time panic
Panic(why) ==
    /\ panic' = why
    /\ UNCHANGED <<mainPc, coll, pipes, call>>

(***************************************************************************)
(* main                                                                    *)
(***************************************************************************)

\* chanDicoms := getOneDicom(ns_coll)
MainCall ==
    /\ Alive
    /\ mainPc = "call"
    /\ pipes' = Append(pipes, NewPipeline(DR_NS_COLLS[coll]))
    /\ mainPc' = "range"
    /\ UNCHANGED <<coll, panic, call>>

\* for f := range chanDicoms { log.Info(f) }: one iteration
MainRecv ==
    /\ Alive
    /\ mainPc = "range"
    /\ LET r == Len(pipes)
           p == pipes[r]
           f == Head(p.chanDicoms.buf)
       IN  /\ CanRecv(p.chanDicoms)
           /\ Put(r, [p EXCEPT !.chanDicoms = Recvd(@),
                               !.owed = @ (-) SetToBag({f}),
                               !.surplus = IF BagIn(f, p.owed) THEN @ ELSE @ (+) SetToBag({f})])

\* main goes on without waiting for the channel to be closed and drained
RangeEndsAtOnce(chanDicoms) == TRUE

\* the range loop of main ends
RangeEnds(chanDicoms) == RecvClosed(chanDicoms)

\* the range loop ends; main goes on to the next collection or returns
MainNext ==
    /\ Alive
    /\ mainPc = "range"
    /\ RangeEnds(pipes[Len(pipes)].chanDicoms)
    /\ IF coll < Len(DR_NS_COLLS)
       THEN coll' = coll + 1 /\ mainPc' = "call"
       ELSE coll' = coll /\ mainPc' = "exit"
    /\ UNCHANGED <<pipes, panic, call>>

(***************************************************************************)
(* The iquest scan command (go-cmd, streaming): it prints lines, then      *)
(* exits; its status is sent once every line is on the Stdout channel.     *)
(***************************************************************************)

\* the command prints one collection name
CmdStdout(r, line) ==
    /\ Alive
    /\ ~pipes[r].cmdExited
    /\ Put(r, [pipes[r] EXCEPT !.Stdout = Append(@, line), !.cmdLines = @ + 1])

\* the command prints one line on its standard error
CmdStderr(r) ==
    /\ Alive
    /\ ~pipes[r].cmdExited
    /\ Put(r, [pipes[r] EXCEPT !.Stderr = @ + 1, !.cmdLines = @ + 1])

\* the command exits with status exit
CmdExit(r, exit) ==
    /\ Alive
    /\ ~pipes[r].cmdExited
    /\ Put(r, [pipes[r] EXCEPT !.cmdExited = TRUE, !.s = <<exit>>])

(***************************************************************************)
(* The discovery goroutine                                                 *)
(***************************************************************************)

\* the Session Key under which a line is looked up and recorded in collMap
SessionKey(line) == Dir(line)


\* collMap[filepath.Dir(line)]: the session of the line has been visited
Visited(collMap, line) == SessionKey(line) \in collMap

\* the visited test applied to every line, with or without series id
ForwardsUnvisited(collMap, line) == ~Visited(collMap, line)

\* whether the discovery goroutine sends the line it has just received
Forwards(collMap, line) == ~MatchSeries(line) \/ ~Visited(collMap, line)

\* collMap[filepath.Dir(line)] = true left out
NotRecorded(collMap, line) == collMap

\* collMap after the line has been received
Recorded(collMap, line) ==
    IF MatchSeries(line) /\ ~Visited(collMap, line)
    THEN collMap \cup {SessionKey(line)}
    ELSE collMap

\* case line := <-iquestCmdC.Stdout, the regular expression and the test of
\* collMap: a line without series id goes to the send on chanColls, a series
\* of a session not yet visited to mutex.Lock(), any other is passed over
ScanStdout(r) ==
    LET p == pipes[r] IN
    /\ Alive
    /\ p.scanPc = "select"
    /\ p.Stdout # <<>>
    /\ LET line == Head(p.Stdout) IN
       Put(r, [p EXCEPT !.Stdout = Tail(@),
                        !.scanned = Append(@, line),
                        !.line = IF Forwards(p.collMap, line) THEN line ELSE <<>>,
                        !.scanPc = IF ~Forwards(p.collMap, line) THEN "select"
                                   ELSE IF MatchSeries(line) THEN "lock" ELSE "send"])

\* mutex.Lock()
ScanLock(r) ==
    LET p == pipes[r] IN
    /\ Alive
    /\ p.scanPc = "lock"
    /\ ~p.mutex
    /\ Put(r, [p EXCEPT !.mutex = TRUE, !.scanPc = "insert"])

\* mutex.Unlock() left out
UnlockLeftOut(mutex) == mutex

\* mutex.Unlock()
Unlock(mutex) == FALSE

\* collMap[filepath.Dir(line)] = true; mutex.Unlock()
ScanInsert(r) ==
    LET p == pipes[r] IN
    /\ Alive
    /\ p.scanPc = "insert"
    /\ Put(r, [p EXCEPT !.collMap = Recorded(@, p.line),
                        !.mutex = Unlock(@),
                        !.scanPc = "send"])

\* chanColls <- line
ScanSend(r) ==
    LET p == pipes[r] IN
    /\ Alive
    /\ p.scanPc = "send"
    /\ CanSend(p.chanColls, 2 * MAX_DOWNLOAD_W)
    /\ IF p.chanColls.closed
       THEN Panic("send on closed channel")
       ELSE Put(r, [p EXCEPT !.chanColls = Sent(@, p.line),
                             !.forwarded = Append(@, p.line),
                             !.line = <<>>,
                             !.scanPc = "select"])

\* case line := <-iquestCmdC.Stderr: log.Error(line)
ScanStderr(r) ==
    LET p == pipes[r] IN
    /\ Alive
    /\ p.scanPc = "select"
    /\ p.Stderr > 0
    /\ Put(r, [p EXCEPT !.Stderr = @ - 1])

\* m set only when the scan has succeeded
mAfterStatusOk(m, Exit) == IF Exit = 0 THEN 1 ELSE m

\* if st.Exit != 0 { log.Error(st.Error) }; m = 1
mAfterStatus(m, Exit) == 1

\* case st := <-s
ScanStatus(r) ==
    LET p == pipes[r] IN
    /\ Alive
    /\ p.scanPc = "select"
    /\ p.s # <<>>
    /\ Put(r, [p EXCEPT !.s = <<>>, !.m = mAfterStatus(@, Head(p.s))])

\* default, taken when no other case is ready: with m = 1 and both streams
\* empty the loop is left and chanColls is closed
ScanBreak(r) ==
    LET p == pipes[r] IN
    /\ Alive
    /\ p.scanPc = "select"
    /\ p.Stdout = <<>> /\ p.Stderr = 0 /\ p.s = <<>>
    /\ p.m = 1 /\ Len(p.Stdout) = 0 /\ p.Stderr = 0
    /\ IF p.chanColls.closed
       THEN Panic("close of closed channel")
       ELSE Put(r, [p EXCEPT !.chanColls = Closed(@), !.scanPc = "done"])

(***************************************************************************)
(* The file-selection pool                                                 *)
(***************************************************************************)

\* the rows from the first one that does not carry the no-rows marker
RECURSIVE SkipNoRows(_)
SkipNoRows(rows) ==
    IF rows = <<>> THEN <<>>
    ELSE IF Contains(Head(rows), NoRows) THEN SkipNoRows(Tail(rows))
    ELSE rows

\* break after every file
AfterSendStops(l, rest) == <<>>

\* continue after every file
AfterSendGoesOn(l, rest) == SkipNoRows(rest)

\* what is left of the range loop after row l has been sent: the loop goes
\* on after a zip file and is left after any other file
AfterSend(l, rest) == IF isZipFile(l) THEN SkipNoRows(rest) ELSE <<>>

\* c, ok := <-chanColls with ok = true
W1Recv(r) ==
    LET p == pipes[r] IN
    /\ Alive
    /\ CanRecv(p.chanColls)
    /\ \E w \in BagToSet(p.pool1) :
        /\ w.pc = "recv"
        /\ Put(r, [p EXCEPT !.chanColls = Recvd(@),
                            !.pool1 = Replace(@, w, [Worker1 EXCEPT !.pc = "query",
                                                             !.c = Head(p.chanColls.buf)])])

\* c, ok := <-chanColls with ok = false: break
W1Closed(r) ==
    LET p == pipes[r] IN
    /\ Alive
    /\ RecvClosed(p.chanColls)
    /\ \E w \in BagToSet(p.pool1) :
        /\ w.pc = "recv"
        /\ Put(r, [p EXCEPT !.pool1 = Replace(@, w, [Worker1 EXCEPT !.pc = "sync"])])

\* s := <-iquestCmdF.Start() returns to worker w with s.Stdout = rows; the
\* range loop runs up to its first send, or to its end
W1Query(r, w, rows) ==
    LET p    == pipes[r]
        todo == SkipNoRows(rows)
    IN  /\ Alive
        /\ w \in BagToSet(p.pool1)
        /\ w.pc = "query"
        /\ Put(r, [p EXCEPT !.pool1 = Replace(@, w,
                        [w EXCEPT !.pc = IF todo = <<>> THEN "recv" ELSE "send",
                                  !.rows = todo,
                                  !.listing = rows,
                                  !.sent = <<>>])])

\* chanFiles <- l, and the loop up to its next send or to its end
W1Send(r) ==
    LET p == pipes[r] IN
    /\ Alive
    /\ CanSend(p.chanFiles, 2 * MAX_DOWNLOAD_W)
    /\ \E w \in BagToSet(p.pool1) :
        /\ w.pc = "send"
        /\ IF p.chanFiles.closed
           THEN Panic("send on closed channel")
           ELSE LET l    == Head(w.rows)
                    todo == AfterSend(l, Tail(w.rows))
                IN  Put(r, [p EXCEPT !.chanFiles = Sent(@, l),
                                     !.pool1 = Replace(@, w,
                                        [w EXCEPT !.pc = IF todo = <<>> THEN "recv" ELSE "send",
                                                  !.rows = todo,
                                                  !.sent = Append(@, l)])])

\* waitWorkers called with one worker too few
nworkerOneShort == MAX_DOWNLOAD_W - 1

\* the number of tokens waitWorkers receives before it closes chanSync
nworker == MAX_DOWNLOAD_W

\* chanSync1 <- '0' meets <-*chanSync in waitWorkers (the channel is unbuffered)
W1Token(r) ==
    LET p == pipes[r] IN
    /\ Alive
    /\ \E w \in BagToSet(p.pool1) :
        /\ w.pc = "sync"
        /\ IF p.chanSync1.closed
           THEN Panic("send on closed channel")
           ELSE /\ p.closer1.pc = "wait"
                /\ p.closer1.i < nworker
                /\ Put(r, [p EXCEPT !.pool1 = Replace(@, w, [w EXCEPT !.pc = "done"]),
                                    !.closer1.i = @ + 1])

\* waitWorkers leaves its loop: close(*chanSync)
Closer1Sync(r) ==
    LET p == pipes[r] IN
    /\ Alive
    /\ p.closer1.pc = "wait"
    /\ ~(p.closer1.i < nworker)
    /\ IF p.chanSync1.closed
       THEN Panic("close of closed channel")
       ELSE Put(r, [p EXCEPT !.chanSync1 = Closed(@), !.closer1.pc = "close"])

\* close(chanFiles)
Closer1Close(r) ==
    LET p == pipes[r] IN
    /\ Alive
    /\ p.closer1.pc = "close"
    /\ IF p.chanFiles.closed
       THEN Panic("close of closed channel")
       ELSE Put(r, [p EXCEPT !.chanFiles = Closed(@), !.closer1.pc = "done"])


(***************************************************************************)
(* downloadDicom                                                           *)
(*                                                                         *)
(* A downloaded archive is what reading it yields: whether os.Open and     *)
(* gzip.NewReader succeed, the tar entries tr.Next() returns one after     *)
(* another (Typeflag, Name, and whether copying the entry out succeeds),   *)
(* and the error that ends them: io.EOF at the end of a well-formed        *)
(* archive, another error when the stream is truncated or corrupt.         *)
(***************************************************************************)

\* the length the date string is taken to have in path[i+8:]
DateLen == 8

Ok(path) == [kind |-> "ok", path |-> path]

Err == [kind |-> "err", path |-> <<>>]

NilDeref == [kind |-> "panic", path |-> <<>>]

\* the relocation of an IMA file left out
LocalPathInSeries(path) ==
    Join(Join(opts_ddir, opts_date), From(path, Index(path, opts_date) + DateLen))

\* the local destination of a remote path that holds the date string
LocalPath(path) ==
    LET i   == Index(path, opts_date)
        loc == Join(Join(opts_ddir, opts_date), From(path, i + DateLen))
    IN  IF isImaFile(loc) THEN Join(Dir(Dir(loc)), Base(loc)) ELSE loc

\* the first entry taken whatever its type
TarLoopFirstEntry(entries, end, dir) ==
    IF entries = <<>> THEN Err ELSE Ok(Join(dir, Base(Head(entries).Name)))

\* the for loop over tr.Next(): a directory entry is passed over, the first
\* regular file is copied out and ends the loop, io.EOF is the empty
\* archive; after any other error h is nil and h.Typeflag is evaluated
RECURSIVE TarLoop(_, _, _)
TarLoop(entries, end, dir) ==
    IF entries = <<>>
    THEN IF end = "EOF" THEN Err ELSE NilDeref
    ELSE LET h == Head(entries) IN
         IF h.Typeflag = "dir" THEN TarLoop(Tail(entries), end, dir)
         ELSE IF h.Typeflag = "reg"
              THEN IF h.copy THEN Ok(Join(dir, Base(h.Name))) ELSE Err
              ELSE TarLoop(Tail(entries), end, dir)

\* the test i < 0 left out
HoldsDateOrNot(path) == TRUE

\* i := strings.Index(path, *opts_date) is not negative
HoldsDate(path) == Index(path, opts_date) > 0

\* downloadDicom before the fetch: FALSE when it returns an error without
\* starting iget (no date string in the path, or MkdirAll failed)
Fetches(path, mkdir) == HoldsDate(path) /\ mkdir

\* downloadDicom after iget -f path loc has returned with status exit, the
\* downloaded object reading as arch
Downloaded(path, loc, exit, arch) ==
    IF exit # 0 THEN Err
    ELSE IF isZipFile(loc) THEN Ok(loc)
    ELSE IF isImaFile(loc) THEN Ok(loc)
    ELSE IF ~arch.open THEN Err
    ELSE IF ~arch.gzip THEN Err
    ELSE TarLoop(arch.entries, arch.end, Dir(loc))

\* what a call of downloadDicom that has not got anywhere has done: the
\* directories given to os.MkdirAll, the (path, loc) given to iget, the
\* (sourceDir, destDir) given to makeDownloadCmd, and the files it leaves on
\* the local disk
NoEffect ==
    [ret |-> Err, MkdirAll |-> <<>>, iget |-> <<>>, makeDownloadCmd |-> <<>>, disk |-> {}]

cmd_sh == <<"c", "m", "d", ".", "s", "h">>

\* makeDownloadCmd(sourceDir, destDir): the file it leaves behind, none when
\* it cannot be created or written (the caller only logs a warning)
CmdFile(destDir, cmd) == IF cmd THEN {Join(destDir, cmd_sh)} ELSE {}

\* downloadDicom(path) as a whole, where env tells what it finds: whether
\* os.MkdirAll succeeds (mkdir), the exit status of iget (exit), what the
\* downloaded object reads as (arch) and whether cmd.sh can be written (cmd).
\* The deferred os.Remove(loc) is registered once gzip.NewReader has
\* succeeded and runs on every way out from there on.
downloadDicom(path, env) ==
    IF ~HoldsDate(path) THEN NoEffect
    ELSE
    LET loc == LocalPath(path)
        dir == Dir(loc)
    IN  IF ~env.mkdir THEN [NoEffect EXCEPT !.MkdirAll = <<dir>>]
        ELSE
        LET got == [NoEffect EXCEPT !.MkdirAll = <<dir>>, !.iget = <<<<path, loc>>>>]
            ret == Downloaded(path, loc, env.exit, env.arch)
        IN  IF env.exit # 0 THEN got
            ELSE IF isZipFile(loc) THEN [got EXCEPT !.ret = ret, !.disk = {loc}]
            ELSE IF isImaFile(loc)
                 THEN [got EXCEPT !.ret = ret,
                                  !.makeDownloadCmd = <<<<Dir(Dir(path)), dir>>>>,
                                  !.disk = {loc} \cup CmdFile(dir, env.cmd)]
            ELSE IF ~env.arch.open \/ ~env.arch.gzip
                 THEN [got EXCEPT !.ret = ret, !.disk = {loc}]
            ELSE IF ret.kind = "ok"
                 THEN [got EXCEPT !.ret = ret,
                                  !.makeDownloadCmd = <<<<Dir(path), dir>>>>,
                                  !.disk = ({ret.path} \cup CmdFile(dir, env.cmd)) \ {loc}]
            ELSE [got EXCEPT !.ret = ret]

\* the branch downloadDicom takes for the fetched file
InlineKind(loc) ==
    IF isZipFile(loc) THEN "ZipArchive"
    ELSE IF isImaFile(loc) THEN "PlainFile"
    ELSE "CompressedArchive"

\* the selection with the test for ".zip" made first and ".tar.gz" left out
GetDicomExtractorZipOnly(path) ==
    IF HasSuffix(path, <<".", "z", "i", "p">>) THEN "DicomExtractorZip"
    ELSE "DicomExtractorTgz"

\* GetDicomExtractor(path)
GetDicomExtractor(path) ==
    IF HasSuffix(path, <<".", "t", "a", "r", ".", "g", "z">>) THEN "DicomExtractorTgz"
    ELSE IF HasSuffix(path, <<".", "z", "i", "p">>) THEN "DicomExtractorZip"
    ELSE "DicomExtractorIgnore"

\* the kind of archive each implementation of Extractor stands for
KindOf(extractor) ==
    CASE extractor = "DicomExtractorTgz"    -> "CompressedArchive"
      [] extractor = "DicomExtractorZip"    -> "ZipArchive"
      [] extractor = "DicomExtractorIgnore" -> "PlainFile"

\* extractor.Extract(pathArchive): what it returns and what it leaves on the
\* local disk of the file it was given.  DicomExtractorTgz removes the
\* archive once it has opened as a gzip stream, the two others return the
\* path they were given
Extract(extractor, pathArchive, arch) ==
    IF extractor = "DicomExtractorTgz"
    THEN IF ~arch.open \/ ~arch.gzip
         THEN [ret |-> Err, disk |-> {pathArchive}]
         ELSE LET ret == TarLoop(arch.entries, arch.end, Dir(pathArchive)) IN
              [ret |-> ret,
               disk |-> IF ret.kind = "ok" THEN {ret.path} \ {pathArchive} ELSE {}]
    ELSE [ret |-> Ok(pathArchive), disk |-> {pathArchive}]

\* no extractor has been given the fetched file
NoExtract == [pc |-> "called", extractor |-> "none", ret |-> Err, disk |-> {}]

\* the file iget has fetched for the call is given, in a run of its own, to
\* the extractor GetDicomExtractor selects for it
ExtractReturns ==
    /\ call.pc # "none"
    /\ call.extract.pc = "called"
    /\ Fetches(call.path, call.env.mkdir)
    /\ call.env.exit = 0
    /\ LET loc       == LocalPath(call.path)
           extractor == GetDicomExtractor(loc)
           x         == Extract(extractor, loc, call.env.arch)
       IN  call' = [call EXCEPT !.extract = [pc |-> "returned",
                                             extractor |-> extractor,
                                             ret |-> x.ret,
                                             disk |-> x.disk]]
    /\ UNCHANGED <<mainPc, coll, pipes, panic>>

\* a call of downloadDicom(path) is looked at by itself; it returns, or the
\* process dies of the nil header
DownloadReturns ==
    /\ Alive
    /\ call.pc = "called"
    /\ LET done == downloadDicom(call.path, call.env) IN
       /\ call' = [call EXCEPT !.pc = "returned", !.done = done]
       /\ panic' = IF done.ret.kind = "panic" THEN "nil pointer dereference" ELSE panic
    /\ UNCHANGED <<mainPc, coll, pipes>>

(***************************************************************************)
(* The retrieval pool                                                      *)
(***************************************************************************)

\* f, ok := <-chanFiles with ok = true, and downloadDicom(f) up to the fetch.
\* returns tells whether st := <-c.Start() will ever return: a worker whose
\* fetch never returns stays at "hung"
W2Recv(r, mkdir, returns) ==
    LET p == pipes[r] IN
    /\ Alive
    /\ CanRecv(p.chanFiles)
    /\ \E w \in BagToSet(p.pool2) :
        /\ w.pc = "recv"
        /\ LET f == Head(p.chanFiles.buf) IN
           Put(r, [p EXCEPT !.chanFiles = Recvd(@),
                            !.pool2 = IF Fetches(f, mkdir)
                                      THEN Replace(@, w,
                                              [w EXCEPT !.pc = IF returns THEN "iget" ELSE "hung",
                                                        !.f = f,
                                                        !.loc = LocalPath(f),
                                                        !.tries = 1])
                                      ELSE @])

\* f, ok := <-chanFiles with ok = false: break
W2Closed(r) ==
    LET p == pipes[r] IN
    /\ Alive
    /\ RecvClosed(p.chanFiles)
    /\ \E w \in BagToSet(p.pool2) :
        /\ w.pc = "recv"
        /\ Put(r, [p EXCEPT !.pool2 = Replace(@, w, [w EXCEPT !.pc = "sync"])])

\* the continue after log.Error(err) left out
EmitsEvenOnError(res) == TRUE

\* if err != nil { log.Error(err); continue }: whether the worker goes on to
\* the send on chanDicoms
Emits(res) == res.kind = "ok"

\* iget started again for the file that has failed
Retried(w) == [w EXCEPT !.tries = @ + 1]

\* log.Error(err); continue: the worker is back at the receive on chanFiles
\* with nothing in hand
Dropped(w) == Worker2

\* st := <-c.Start() returns and downloadDicom runs to its end: an error is
\* logged and the loop continues, a path is held for the send on chanDicoms,
\* and the nil header ends the worker and with it the process
W2Fetch(r, exit, arch) ==
    LET p == pipes[r] IN
    /\ Alive
    /\ \E w \in BagToSet(p.pool2) :
        /\ w.pc = "iget"
        /\ LET res == Downloaded(w.f, w.loc, exit, arch) IN
           IF res.kind = "panic"
           THEN /\ panic' = "nil pointer dereference"
                /\ pipes' = [pipes EXCEPT ![r].pool2 = Replace(@, w, [w EXCEPT !.pc = "panic"])]
                /\ UNCHANGED <<mainPc, coll, call>>
           ELSE Put(r, [p EXCEPT
                    !.pool2 = Replace(@, w, IF Emits(res)
                                            THEN [Worker2 EXCEPT !.pc = "emit",
                                                                 !.fdicom = res.path]
                                            ELSE Dropped(w)),
                    !.owed = IF res.kind = "ok" THEN @ (+) SetToBag({res.path}) ELSE @])

\* chanDicoms <- fdicom
W2Emit(r) ==
    LET p == pipes[r] IN
    /\ Alive
    /\ CanSend(p.chanDicoms, MAX_DOWNLOAD_W)
    /\ \E w \in BagToSet(p.pool2) :
        /\ w.pc = "emit"
        /\ IF p.chanDicoms.closed
           THEN Panic("send on closed channel")
           ELSE Put(r, [p EXCEPT !.chanDicoms = Sent(@, w.fdicom),
                                 !.pool2 = Replace(@, w, Worker2)])

\* chanSync2 <- '0' meets <-*chanSync in waitWorkers
W2Token(r) ==
    LET p == pipes[r] IN
    /\ Alive
    /\ \E w \in BagToSet(p.pool2) :
        /\ w.pc = "sync"
        /\ IF p.chanSync2.closed
           THEN Panic("send on closed channel")
           ELSE /\ p.closer2.pc = "wait"
                /\ p.closer2.i < nworker
                /\ Put(r, [p EXCEPT !.pool2 = Replace(@, w, [w EXCEPT !.pc = "done"]),
                                    !.closer2.i = @ + 1])

\* waitWorkers leaves its loop: close(*chanSync)
Closer2Sync(r) ==
    LET p == pipes[r] IN
    /\ Alive
    /\ p.closer2.pc = "wait"
    /\ ~(p.closer2.i < nworker)
    /\ IF p.chanSync2.closed
       THEN Panic("close of closed channel")
       ELSE Put(r, [p EXCEPT !.chanSync2 = Closed(@), !.closer2.pc = "close"])

\* close(chanDicoms)
Closer2Close(r) ==
    LET p == pipes[r] IN
    /\ Alive
    /\ p.closer2.pc = "close"
    /\ IF p.chanDicoms.closed
       THEN Panic("close of closed channel")
       ELSE Put(r, [p EXCEPT !.chanDicoms = Closed(@), !.closer2.pc = "done"])

(***************************************************************************)
(* The remote repository and the bounds of the model                       *)
(***************************************************************************)

\* lines the scan commands print, both streams and all runs together
MaxLines == 2

Sess == <<"/", "r", "/">> \o opts_date

\* two series of one session, a series of another session, a collection
\* without series, and the line that iquest prints when nothing matches
cA1 == Sess \o <<"/", "0", "0", "1", "-", "a">>

cA2 == Sess \o <<"/", "0", "0", "2", "-", "b">>

cB1 == <<"/", "q", "/">> \o opts_date \o <<"/", "0", "0", "1", "-", "a">>

cN == Sess \o <<"/", "x">>

\* the rows COLL_NAME/DATA_NAME of the data objects of collection c
Row(c, name) == c \o <<"/">> \o name

dZip == <<"a", ".", "z", "i", "p">>

dZip2 == <<"b", ".", "z", "i", "p">>

dTgz == <<"s", ".", "t", "a", "r", ".", "g", "z">>

dIma == <<"f", ".", "I", "M", "A">>


\* the sequences of at most n elements of S
RECURSIVE SeqsUpTo(_, _)
SeqsUpTo(S, n) ==
    IF n = 0 THEN {<<>>}
    ELSE LET T == SeqsUpTo(S, n - 1)
         IN  T \cup {Append(t, x) : t \in T, x \in S}

Entry(Typeflag, Name, copy) == [Typeflag |-> Typeflag, Name |-> Name, copy |-> copy]

Archive(open, gzip, entries, end) ==
    [open |-> open, gzip |-> gzip, entries |-> entries, end |-> end]

eDir == Entry("dir", <<"s", "/">>, TRUE)

eFileA == Entry("reg", <<"s", "/", "A">>, TRUE)

eFileB == Entry("reg", <<"s", "/", "B">>, TRUE)

\* [dir/, fileA, fileB]
aGood == Archive(TRUE, TRUE, <<eDir, eFileA, eFileB>>, "EOF")

\* only a directory entry
aDirs == Archive(TRUE, TRUE, <<eDir>>, "EOF")

\* the compressed stream ends in the middle of the archive
aTruncated == Archive(TRUE, TRUE, <<eDir>>, "ErrUnexpectedEOF")

\* not a gzip stream
aBadHeader == Archive(TRUE, FALSE, <<>>, "EOF")

\* the first regular file cannot be written
aNoCopy == Archive(TRUE, TRUE, <<Entry("reg", <<"A">>, FALSE)>>, "EOF")

\* the downloaded file cannot be opened
aNoOpen == Archive(FALSE, TRUE, <<>>, "EOF")


(***************************************************************************)
(* The pipeline under main: both streams of the scan, collections with no  *)
(* file, one file and two files, fetches that fail, archives that are well *)
(* formed, empty, truncated, not compressed and not writable out           *)
(***************************************************************************)

\* the lines printed so far by the scan commands of all the pipelines
RECURSIVE TotalLines(_)
TotalLines(ps) == IF ps = <<>> THEN 0 ELSE Head(ps).cmdLines + TotalLines(Tail(ps))

Lines == {cN}

Listings(c) == {<<>>, <<Row(c, dZip)>>, <<Row(c, dZip), Row(c, dTgz)>>}

Archives == {aGood, aDirs, aTruncated, aBadHeader, aNoCopy}

\* what a fetch can leave behind: nothing to read after a non-zero exit
Fetched(exit) == IF exit = 0 THEN Archives ELSE {aNoOpen}

\* the scan commands may print another line
MayPrint == TotalLines(pipes) < MaxLines

\* every step but the start of a fetch (the names of Lines hold no series id,
\* so that the discovery goroutine never comes to mutex.Lock())
NextButFetch ==
    \/ MainCall
    \/ MainRecv
    \/ MainNext
    \/ \E r \in DOMAIN pipes : \E line \in Lines : MayPrint /\ CmdStdout(r, line)
    \/ \E r \in DOMAIN pipes : MayPrint /\ CmdStderr(r)
    \/ \E r \in DOMAIN pipes : \E exit \in {0, 1} : CmdExit(r, exit)
    \/ \E r \in DOMAIN pipes : ScanStdout(r)
    \/ \E r \in DOMAIN pipes : ScanSend(r)
    \/ \E r \in DOMAIN pipes : ScanStderr(r)
    \/ \E r \in DOMAIN pipes : ScanStatus(r)
    \/ \E r \in DOMAIN pipes : ScanBreak(r)
    \/ \E r \in DOMAIN pipes : W1Recv(r)
    \/ \E r \in DOMAIN pipes : \E w \in BagToSet(pipes[r].pool1) :
            \E rows \in Listings(w.c) : W1Query(r, w, rows)
    \/ \E r \in DOMAIN pipes : W1Send(r)
    \/ \E r \in DOMAIN pipes : W1Closed(r)
    \/ \E r \in DOMAIN pipes : W1Token(r)
    \/ \E r \in DOMAIN pipes : Closer1Sync(r)
    \/ \E r \in DOMAIN pipes : Closer1Close(r)
    \/ \E r \in DOMAIN pipes : \E exit \in {0, 1} : \E arch \in Fetched(exit) :
            W2Fetch(r, exit, arch)
    \/ \E r \in DOMAIN pipes : W2Emit(r)
    \/ \E r \in DOMAIN pipes : W2Closed(r)
    \/ \E r \in DOMAIN pipes : W2Token(r)
    \/ \E r \in DOMAIN pipes : Closer2Sync(r)
    \/ \E r \in DOMAIN pipes : Closer2Close(r)

\* every fetch returns
Next ==
    \/ NextButFetch
    \/ \E r \in DOMAIN pipes : \E mkdir \in BOOLEAN : W2Recv(r, mkdir, TRUE)

Spec == Init /\ [][Next]_vars


(***************************************************************************)
(* Discovery alone: the scan prints any names, in any order, of series of  *)
(* one session, of another session and of a collection without series; no *)
(* collection holds a file, so that nothing is sent on chanFiles           *)
(***************************************************************************)

\* names the scan commands print, all runs together
MaxScan == 3

ScanNames == {cA1, cA2, cB1, cN}

MayScan == TotalLines(pipes) < MaxScan

NextDedup ==
    \/ MainCall
    \/ MainNext
    \/ \E r \in DOMAIN pipes : \E line \in ScanNames : MayScan /\ CmdStdout(r, line)
    \/ \E r \in DOMAIN pipes : \E exit \in {0, 1} : CmdExit(r, exit)
    \/ \E r \in DOMAIN pipes : ScanStdout(r)
    \/ \E r \in DOMAIN pipes : ScanLock(r)
    \/ \E r \in DOMAIN pipes : ScanInsert(r)
    \/ \E r \in DOMAIN pipes : ScanSend(r)
    \/ \E r \in DOMAIN pipes : ScanStatus(r)
    \/ \E r \in DOMAIN pipes : ScanBreak(r)
    \/ \E r \in DOMAIN pipes : W1Recv(r)
    \/ \E r \in DOMAIN pipes : \E w \in BagToSet(pipes[r].pool1) : W1Query(r, w, <<>>)
    \/ \E r \in DOMAIN pipes : W1Closed(r)
    \/ \E r \in DOMAIN pipes : W1Token(r)
    \/ \E r \in DOMAIN pipes : Closer1Sync(r)
    \/ \E r \in DOMAIN pipes : Closer1Close(r)
    \/ \E r \in DOMAIN pipes : W2Closed(r)
    \/ \E r \in DOMAIN pipes : W2Token(r)
    \/ \E r \in DOMAIN pipes : Closer2Sync(r)
    \/ \E r \in DOMAIN pipes : Closer2Close(r)

SpecDedup == Init /\ [][NextDedup]_vars

(***************************************************************************)
(* Selection alone: one collection, its listing any sequence of rows       *)
(***************************************************************************)

\* rows a listing query returns
MaxRows == 3

Rows(c) == {Row(c, dZip), Row(c, dZip2), Row(c, dTgz), Row(c, dIma), NoRows}

NextSelect ==
    \/ MainCall
    \/ \E r \in DOMAIN pipes : TotalLines(pipes) < 1 /\ CmdStdout(r, cN)
    \/ \E r \in DOMAIN pipes : \E exit \in {0, 1} : CmdExit(r, exit)
    \/ \E r \in DOMAIN pipes : ScanStdout(r)
    \/ \E r \in DOMAIN pipes : ScanSend(r)
    \/ \E r \in DOMAIN pipes : ScanStatus(r)
    \/ \E r \in DOMAIN pipes : ScanBreak(r)
    \/ \E r \in DOMAIN pipes : W1Recv(r)
    \/ \E r \in DOMAIN pipes : \E w \in BagToSet(pipes[r].pool1) :
            \E rows \in SeqsUpTo(Rows(w.c), MaxRows) : W1Query(r, w, rows)
    \/ \E r \in DOMAIN pipes : W1Send(r)
    \/ \E r \in DOMAIN pipes : W1Closed(r)
    \/ \E r \in DOMAIN pipes : W1Token(r)
    \/ \E r \in DOMAIN pipes : Closer1Sync(r)
    \/ \E r \in DOMAIN pipes : Closer1Close(r)

SpecSelect == Init /\ [][NextSelect]_vars

(***************************************************************************)
(* The pipeline with one fetch that never returns                          *)
(***************************************************************************)

SomeHung == \E r \in DOMAIN pipes : \E w \in BagToSet(pipes[r].pool2) : w.pc = "hung"

NextHang ==
    \/ NextButFetch
    \/ \E r \in DOMAIN pipes : \E mkdir \in BOOLEAN : \E returns \in BOOLEAN :
            (returns \/ ~SomeHung) /\ W2Recv(r, mkdir, returns)

SpecHang == Init /\ [][NextHang]_vars

(***************************************************************************)
(* The pipeline under a main that has stopped receiving, its scan still     *)
(* running: the scan prints a name when the one before it has been read,   *)
(* every collection holds one zip file, every fetch succeeds               *)
(***************************************************************************)

\* names the scan command prints
MaxBurst == 29

NextBurst ==
    \/ MainCall
    \/ \E r \in DOMAIN pipes :
            TotalLines(pipes) < MaxBurst /\ pipes[r].Stdout = <<>> /\ CmdStdout(r, cN)
    \/ \E r \in DOMAIN pipes : ScanStdout(r)
    \/ \E r \in DOMAIN pipes : ScanSend(r)
    \/ \E r \in DOMAIN pipes : W1Recv(r)
    \/ \E r \in DOMAIN pipes : \E w \in BagToSet(pipes[r].pool1) :
            W1Query(r, w, <<Row(w.c, dZip)>>)
    \/ \E r \in DOMAIN pipes : W1Send(r)
    \/ \E r \in DOMAIN pipes : W2Recv(r, TRUE, TRUE)
    \/ \E r \in DOMAIN pipes : W2Fetch(r, 0, aGood)
    \/ \E r \in DOMAIN pipes : W2Emit(r)

SpecBurst == Init /\ [][NextBurst]_vars

(***************************************************************************)
(* The pipeline when every fetch fails: iget exits with a non-zero status  *)
(***************************************************************************)

NextFail ==
    \/ MainCall
    \/ MainNext
    \/ \E r \in DOMAIN pipes : \E line \in Lines : MayPrint /\ CmdStdout(r, line)
    \/ \E r \in DOMAIN pipes : \E exit \in {0, 1} : CmdExit(r, exit)
    \/ \E r \in DOMAIN pipes : ScanStdout(r)
    \/ \E r \in DOMAIN pipes : ScanSend(r)
    \/ \E r \in DOMAIN pipes : ScanStatus(r)
    \/ \E r \in DOMAIN pipes : ScanBreak(r)
    \/ \E r \in DOMAIN pipes : W1Recv(r)
    \/ \E r \in DOMAIN pipes : \E w \in BagToSet(pipes[r].pool1) :
            \E rows \in Listings(w.c) : W1Query(r, w, rows)
    \/ \E r \in DOMAIN pipes : W1Send(r)
    \/ \E r \in DOMAIN pipes : W1Closed(r)
    \/ \E r \in DOMAIN pipes : W1Token(r)
    \/ \E r \in DOMAIN pipes : Closer1Sync(r)
    \/ \E r \in DOMAIN pipes : Closer1Close(r)
    \/ \E r \in DOMAIN pipes : W2Recv(r, TRUE, TRUE)
    \/ \E r \in DOMAIN pipes : W2Fetch(r, 1, aNoOpen)
    \/ \E r \in DOMAIN pipes : W2Closed(r)
    \/ \E r \in DOMAIN pipes : W2Token(r)
    \/ \E r \in DOMAIN pipes : Closer2Sync(r)
    \/ \E r \in DOMAIN pipes : Closer2Close(r)

SpecFail == Init /\ [][NextFail]_vars

(***************************************************************************)
(* downloadDicom by itself: any of the remote paths below, MkdirAll and    *)
(* iget succeeding or not, the downloaded object reading as any of the     *)
(* archives above, cmd.sh writable or not                                  *)
(***************************************************************************)

dTxt == <<"n", ".", "t", "x", "t">>

\* a series folder below a session folder below the date folder
cDeep == Sess \o <<"/", "x", "/", "0", "0", "1", "-", "a">>

\* a data object in the date folder itself
pTop == Row(Sess, dIma)

\* a path that holds the date string twice
pTwice == Row(Row(Sess, opts_date), dZip)

\* a path that does not hold the date string
Stray == <<"/", "q", "/", "f", ".", "I", "M", "A">>

Paths ==
    {Row(cN, dZip), Row(cN, dTgz), Row(cN, dTxt), Row(cA1, dIma), Row(cDeep, dIma),
     pTop, pTwice, Stray}

Envs ==
    {[mkdir |-> mkdir, exit |-> exit, arch |-> arch, cmd |-> cmd] :
        mkdir \in BOOLEAN, exit \in {0}, arch \in Archives \cup {aNoOpen}, cmd \in BOOLEAN}
    \cup
    {[mkdir |-> mkdir, exit |-> 1, arch |-> aNoOpen, cmd |-> cmd] :
        mkdir \in BOOLEAN, cmd \in BOOLEAN}

Called(path, env) ==
    [pc |-> "called", path |-> path, env |-> env, done |-> NoEffect, extract |-> NoExtract]

InitDownload ==
    /\ mainPc = "call"
    /\ coll = 1
    /\ pipes = <<>>
    /\ panic = "none"
    /\ call \in {Called(path, env) : path \in Paths, env \in Envs}

NextDownload ==
    \/ DownloadReturns
    \/ ExtractReturns

SpecDownload == InitDownload /\ [][NextDownload]_vars

(***************************************************************************)
(* Properties of the pipeline                                              *)
(***************************************************************************)

\* the bag of the elements of a sequence
RECURSIVE BagOfSeq(_)
BagOfSeq(q) == IF q = <<>> THEN EmptyBag ELSE SetToBag({Head(q)}) (+) BagOfSeq(Tail(q))

\* the paths held by the workers of set S of a retrieval pool that are at the
\* send on chanDicoms
RECURSIVE HeldBy(_, _)
HeldBy(S, pool) ==
    IF S = {} THEN EmptyBag
    ELSE LET w == CHOOSE x \in S : TRUE
         IN  (IF w.pc = "emit" THEN Copies(w.fdicom, CopiesIn(w, pool)) ELSE EmptyBag)
                (+) HeldBy(S \ {w}, pool)

Held(pool) == HeldBy(BagToSet(pool), pool)

AllAt(pool, pcs) == \A w \in BagToSet(pool) : w.pc \in pcs

\* every goroutine getOneDicom started has terminated, its channel is closed
Terminated(p) ==
    /\ p.scanPc = "done"
    /\ AllAt(p.pool1, {"done"}) /\ p.closer1.pc = "done"
    /\ AllAt(p.pool2, {"done"}) /\ p.closer2.pc = "done"
    /\ p.chanDicoms.closed

\* main has left the range loop over the channel of pipeline r
Drained(r) == r < Len(pipes) \/ mainPc \in {"call", "exit"}

\* C1: with a scan that exits, queries and fetches that return and a main
\* that keeps receiving, the process never comes to rest before main has
\* returned with every output channel closed and every goroutine terminated.
C1_NeverStuck ==
    \/ ENABLED Next
    \/ /\ mainPc = "exit"
       /\ \A r \in DOMAIN pipes : Terminated(pipes[r])

\* C1, as far as the code goes: the only states in which the process rests
\* before that are those in which it has died of the nil tar header
C1_NeverStuckButForPanic == C1_NeverStuck \/ panic = "nil pointer dereference"

\* C2: main receives exactly the paths downloadDicom returned with a nil
\* error, each once: no other value is received, every returned path is
\* buffered on chanDicoms or held by the worker about to send it until main
\* has it, none is left when the channel is closed and drained.
C2_ExactlySurvivors ==
    \A r \in DOMAIN pipes :
        LET p == pipes[r] IN
        /\ p.surplus = EmptyBag
        /\ p.owed = BagOfSeq(p.chanDicoms.buf) (+) Held(p.pool2)
        /\ p.chanDicoms.closed => AllAt(p.pool2, {"done"})
        /\ Drained(r) => p.owed = EmptyBag /\ p.chanDicoms.closed

C2_Witness ==
    \E r \in DOMAIN pipes :
        /\ pipes[r].chanDicoms.closed
        /\ Len(pipes[r].chanDicoms.buf) >= 2

\* C3: chanFiles and chanDicoms are closed once, after each of the W workers
\* of the pool has found its input closed, finished sending and handed over
\* its one token; chanSync is closed after exactly W tokens; nothing is sent
\* on a closed channel and nothing is closed twice.
C3_PoolClosedLast(colls, pool, sync, closer, out) ==
    /\ closer.i = At(pool, "done")
    /\ (\E w \in BagToSet(pool) : w.pc \in {"sync", "done"}) => RecvClosed(colls)
    /\ sync.closed => closer.i = MAX_DOWNLOAD_W /\ AllAt(pool, {"done"})
    /\ sync.closed <=> closer.pc \in {"close", "done"}
    /\ out.closed <=> closer.pc = "done"

C3_ClosedAfterAllTokens ==
    /\ panic \notin {"send on closed channel", "close of closed channel"}
    /\ \A r \in DOMAIN pipes :
        LET p == pipes[r] IN
        /\ C3_PoolClosedLast(p.chanColls, p.pool1, p.chanSync1, p.closer1, p.chanFiles)
        /\ C3_PoolClosedLast(p.chanFiles, p.pool2, p.chanSync2, p.closer2, p.chanDicoms)

C3_Witness ==
    \E r \in DOMAIN pipes :
        /\ pipes[r].chanFiles.closed
        /\ Len(pipes[r].chanFiles.buf) >= 2
        /\ At(pipes[r].pool2, "emit") >= 1

\* C8: a file whose processing fails is dropped and the worker goes on: no
\* failure of one item ends the process.
C8_FailureNeverAborts == panic = "none"

\* the operations in progress in all the pipelines together
RECURSIVE InProgress(_, _)
InProgress(ps, stage) ==
    IF ps = <<>> THEN 0
    ELSE (IF stage = 1 THEN At(Head(ps).pool1, "query") ELSE At(Head(ps).pool2, "iget"))
            + InProgress(Tail(ps), stage)

\* C10: at most W listing queries and at most W fetches are in progress in
\* the process; each pool has W workers; a pipeline is started only when the
\* channel of the one before it is closed and drained, all its goroutines
\* having terminated.
C10_AtMostW ==
    /\ InProgress(pipes, 1) <= MAX_DOWNLOAD_W
    /\ InProgress(pipes, 2) <= MAX_DOWNLOAD_W
    /\ \A r \in DOMAIN pipes :
        /\ BagCardinality(pipes[r].pool1) = MAX_DOWNLOAD_W
        /\ BagCardinality(pipes[r].pool2) = MAX_DOWNLOAD_W
        /\ r < Len(pipes) => Terminated(pipes[r]) /\ RecvClosed(pipes[r].chanDicoms)

C10_Witness ==
    /\ Len(pipes) = 2
    /\ At(pipes[2].pool2, "iget") >= 1
    /\ At(pipes[2].pool1, "query") >= 1


\* C18: chanColls and chanFiles never hold more than 2W values, chanDicoms
\* never more than W; a sender at a full channel cannot proceed; with main
\* not receiving, the paths fetched and not received are the ones buffered on
\* chanDicoms and the one each worker holds at its send, 2W at most, and when
\* there are 2W no worker receives another file.
C18_Backpressure ==
    \A r \in DOMAIN pipes :
        LET p == pipes[r] IN
        /\ Len(p.chanColls.buf) <= 2 * MAX_DOWNLOAD_W
        /\ Len(p.chanFiles.buf) <= 2 * MAX_DOWNLOAD_W
        /\ Len(p.chanDicoms.buf) <= MAX_DOWNLOAD_W
        /\ Len(p.chanColls.buf) = 2 * MAX_DOWNLOAD_W => ~ENABLED ScanSend(r)
        /\ Len(p.chanFiles.buf) = 2 * MAX_DOWNLOAD_W => ~ENABLED W1Send(r)
        /\ Len(p.chanDicoms.buf) = MAX_DOWNLOAD_W => ~ENABLED W2Emit(r)
        /\ p.owed = BagOfSeq(p.chanDicoms.buf) (+) Held(p.pool2)
        /\ BagCardinality(p.owed) <= 2 * MAX_DOWNLOAD_W
        /\ BagCardinality(p.owed) = 2 * MAX_DOWNLOAD_W =>
              /\ ~ENABLED W2Recv(r, TRUE, TRUE)
              /\ At(p.pool2, "iget") = 0

\* every channel full and every goroutine at a send
C18_Witness ==
    \E r \in DOMAIN pipes :
        LET p == pipes[r] IN
        /\ Len(p.chanDicoms.buf) = MAX_DOWNLOAD_W
        /\ At(p.pool2, "emit") = MAX_DOWNLOAD_W
        /\ Len(p.chanFiles.buf) = 2 * MAX_DOWNLOAD_W
        /\ At(p.pool1, "send") = MAX_DOWNLOAD_W
        /\ Len(p.chanColls.buf) = 2 * MAX_DOWNLOAD_W
        /\ p.scanPc = "send"

\* downloadDicom after a non-zero exit of iget: iget has been started once,
\* the error is returned, makeDownloadCmd is not called, nothing is left
FailedFetchDoesNothing ==
    \A path \in Paths : \A env \in Envs :
        (HoldsDate(path) /\ env.mkdir /\ env.exit # 0) =>
            LET done == downloadDicom(path, env) IN
            /\ Len(done.iget) = 1
            /\ done.ret = Err
            /\ done.makeDownloadCmd = <<>>
            /\ done.disk = {}

\* C19: iget is started at most once for the file a worker has in hand;
\* a fetch that fails is followed by no extraction and no cmd.sh; the worker
\* is back at the receive with nothing in hand, nothing is sent to main, and
\* a name comes to chanFiles only from a selection worker at its send.
C19_OncePerFile ==
    /\ FailedFetchDoesNothing
    /\ \A r \in DOMAIN pipes :
        LET p == pipes[r] IN
        /\ \A w \in BagToSet(p.pool2) :
              /\ w.tries <= 1
              /\ w.tries = 1 <=> w.pc \in {"iget", "hung"}
              /\ w.pc = "recv" => w.f = <<>>
        /\ p.chanDicoms.buf = <<>> /\ p.owed = EmptyBag

C19_NeverPutBack ==
    \A r \in DOMAIN pipes :
        LET old == pipes[r].chanFiles.buf
            new == pipes'[r].chanFiles.buf
        IN  new # old =>
              \/ old # <<>> /\ new = Tail(old)
              \/ \E w \in BagToSet(pipes[r].pool1) :
                    w.pc = "send" /\ new = Append(old, Head(w.rows))

C19_NoRetry == []C19_OncePerFile /\ [][C19_NeverPutBack]_vars

\* both files of a collection have been forwarded and taken off chanFiles,
\* their fetches have failed, and every retrieval worker is back at the
\* receive with nothing in hand and nothing sent to main
C19_Witness ==
    \E r \in DOMAIN pipes :
        /\ \E w \in BagToSet(pipes[r].pool1) : Len(w.sent) = 2
        /\ pipes[r].chanFiles.buf = <<>>
        /\ AllAt(pipes[r].pool2, {"recv"})
        /\ pipes[r].chanDicoms.buf = <<>>

(***************************************************************************)
(* Properties of the discovery goroutine                                   *)
(***************************************************************************)

\* the lines sent on chanColls, the one the goroutine is about to send included
Out(p) ==
    p.forwarded \o (IF p.scanPc \in {"lock", "insert", "send"} THEN <<p.line>> ELSE <<>>)

SameSession(a, b) == MatchSeries(a) /\ MatchSeries(b) /\ Dir(a) = Dir(b)

\* C4: of the scanned names that hold a series id and have the same
\* filepath.Dir, at most one is sent on chanColls.
C4_OnePerSession ==
    \A r \in DOMAIN pipes :
        LET out == Out(pipes[r]) IN
        \A i, j \in DOMAIN out : i < j => ~SameSession(out[i], out[j])

C4_Witness ==
    \E r \in DOMAIN pipes :
        /\ pipes[r].scanPc = "done"
        /\ pipes[r].scanned = <<cA1, cB1, cA2>>
        /\ pipes[r].forwarded = <<cA1, cB1>>

\* the scanned lines that are not a later series of a session already seen
RECURSIVE KeptFrom(_, _)
KeptFrom(scanned, i) ==
    IF i > Len(scanned) THEN <<>>
    ELSE (IF \E j \in 1..(i - 1) : SameSession(scanned[j], scanned[i])
          THEN <<>>
          ELSE <<scanned[i]>>) \o KeptFrom(scanned, i + 1)

\* C5: the lines sent on chanColls are the scanned lines, unchanged and in
\* order, less those that hold a series id and come after a line with a series
\* id and the same filepath.Dir: every line without series id is sent, as is
\* the first line of each session.
C5_ForwardsAllButRepeats ==
    \A r \in DOMAIN pipes : Out(pipes[r]) = KeptFrom(pipes[r].scanned, 1)

C5_Witness ==
    \E r \in DOMAIN pipes :
        /\ pipes[r].scanPc = "done"
        /\ pipes[r].scanned = <<cA1, cN, cA2>>
        /\ pipes[r].forwarded = <<cA1, cN>>

\* a line waits on Stdout for a discovery goroutine at its select: ScanStdout
\* is enabled
LineToRead ==
    Alive /\ \E r \in DOMAIN pipes : pipes[r].scanPc = "select" /\ pipes[r].Stdout # <<>>

\* a discovery goroutine holds the mutex: ScanInsert is enabled
Inserting == Alive /\ \E r \in DOMAIN pipes : pipes[r].scanPc = "insert"

\* C11: chanColls is closed once, by the discovery goroutine at its end, when
\* the scan has exited, its status has been received and no line it printed
\* is left unread; what was sent is then every scanned line but the repeats
\* of a session; the pipeline does not come to rest before main has returned
\* with all goroutines terminated; and receiving a status with a non-zero
\* exit changes nothing but m, which it sets as a zero exit does.
C11_ClosedAtEnd ==
    /\ panic # "close of closed channel"
    /\ \A r \in DOMAIN pipes :
        LET p == pipes[r] IN
        /\ p.chanColls.closed <=> p.scanPc = "done"
        /\ p.chanColls.closed =>
              /\ p.cmdExited /\ p.s = <<>> /\ p.m = 1
              /\ p.Stdout = <<>> /\ p.Stderr = 0
              /\ Len(p.scanned) = p.cmdLines
              /\ p.forwarded = KeptFrom(p.scanned, 1)
    /\ \/ LineToRead
       \/ Inserting
       \/ ENABLED NextDedup
       \/ mainPc = "exit" /\ \A r \in DOMAIN pipes : Terminated(pipes[r])

C11_FailureOnlyLogged ==
    \A r \in DOMAIN pipes :
        (pipes[r].s # <<>> /\ Head(pipes[r].s) # 0 /\ pipes'[r].s = <<>>)
            => /\ pipes'[r] = [pipes[r] EXCEPT !.s = <<>>, !.m = 1]
               /\ panic' = panic

C17_TestUnderMutex ==
    \A r \in DOMAIN pipes : pipes[r].scanPc \in {"lock", "insert"} => pipes[r].mutex

\* C17, as far as the code goes: the mutex is held for the insertion alone,
\* the test being made before it is taken; the key found absent by the test
\* is still absent when it is inserted; the mutex is not held at the send on
\* chanColls, at the select, or once the goroutine is done.
C17_InsertUnderMutex ==
    \A r \in DOMAIN pipes :
        LET p == pipes[r] IN
        /\ p.mutex <=> p.scanPc = "insert"
        /\ p.scanPc \in {"lock", "insert"} =>
              MatchSeries(p.line) /\ SessionKey(p.line) \notin p.collMap

\* the key of a second session is being inserted, the mutex held, while a
\* selection worker waits for its listing query
C17_Witness ==
    \E r \in DOMAIN pipes :
        /\ pipes[r].scanPc = "insert"
        /\ pipes[r].mutex
        /\ pipes[r].line = cB1
        /\ pipes[r].collMap = {SessionKey(cA1)}
        /\ At(pipes[r].pool1, "query") >= 1

(***************************************************************************)
(* Properties of the file selection                                        *)
(***************************************************************************)

\* the rows of a listing that do not carry the no-rows marker
RECURSIVE Named(_)
Named(listing) ==
    IF listing = <<>> THEN <<>>
    ELSE (IF Contains(Head(listing), NoRows) THEN <<>> ELSE <<Head(listing)>>)
            \o Named(Tail(listing))

IsZipName(name) == HasSuffix(name, <<".", "z", "i", "p">>)

IsPrefix(a, b) == Len(a) <= Len(b) /\ SubSeq(b, 1, Len(a)) = a

\* worker w has forwarded, or is forwarding, the rows expected of its listing
\* and no other
Selects(w, expected) ==
    /\ w.pc = "send" => IsPrefix(Append(w.sent, Head(w.rows)), expected)
    /\ w.pc # "send" => w.sent = expected

\* C6: of a listing that names zip files only, every name is forwarded, in
\* the order of the listing.
C6_EveryZip ==
    \A r \in DOMAIN pipes : \A w \in BagToSet(pipes[r].pool1) :
        LET names == Named(w.listing) IN
        (\A i \in DOMAIN names : IsZipName(names[i])) => Selects(w, names)

C6_Witness ==
    \E r \in DOMAIN pipes : \E w \in BagToSet(pipes[r].pool1) :
        /\ w.pc = "recv"
        /\ w.listing = <<Row(w.c, dZip), NoRows, Row(w.c, dZip2)>>
        /\ w.sent = <<Row(w.c, dZip), Row(w.c, dZip2)>>

\* C7: of a listing that names a file that is no zip file, the names up to
\* the first such file, that file included, are forwarded and no other; a
\* listing that names nothing forwards nothing.
C7_UpToFirstOther ==
    /\ panic = "none"
    /\ \A r \in DOMAIN pipes : \A w \in BagToSet(pipes[r].pool1) :
        LET names == Named(w.listing) IN
        /\ names = <<>> => w.sent = <<>> /\ w.pc # "send"
        /\ \A k \in DOMAIN names :
              (~IsZipName(names[k]) /\ \A i \in 1..(k - 1) : IsZipName(names[i]))
                 => Selects(w, SubSeq(names, 1, k))

C7_Witness ==
    \E r \in DOMAIN pipes : \E w \in BagToSet(pipes[r].pool1) :
        /\ w.pc = "recv"
        /\ w.listing = <<Row(w.c, dZip), Row(w.c, dTgz), Row(w.c, dZip2)>>
        /\ w.sent = <<Row(w.c, dZip), Row(w.c, dTgz)>>

(***************************************************************************)
(* Properties of the pipeline with a fetch that never returns              *)
(***************************************************************************)

\* no forwarded file waits on chanFiles or is being fetched, and every path
\* returned has reached main
ForwardedServed ==
    \A r \in DOMAIN pipes :
        LET p == pipes[r] IN
        /\ p.chanFiles.buf = <<>>
        /\ At(p.pool2, "iget") = 0
        /\ p.owed = EmptyBag

\* C9: with one fetch that never returns, the process does not come to rest
\* before the other workers have fetched every other forwarded file and main
\* has received every path returned.
C9_OthersGoOn == ENABLED NextHang \/ ~SomeHung \/ ForwardedServed

\* C9, as far as the code goes
C9_OthersGoOnButForPanic == C9_OthersGoOn \/ panic = "nil pointer dereference"

C9_HungAndServed == SomeHung /\ ForwardedServed /\ ~ENABLED NextHang /\ panic = "none"

(***************************************************************************)
(* Properties of downloadDicom                                             *)
(***************************************************************************)

\* the date string occurs in the path
NamesDate(path) == \E i \in 1..Len(path) : OccursAt(path, opts_date, i)

Returned == call.pc = "returned"

\* C12: for a path that does not hold the date string downloadDicom returns
\* an error and has done nothing: no directory made, no iget started, no
\* cmd.sh written, no file left, and the worker sends nothing.
C12_NoDateNoEffect ==
    (Returned /\ ~NamesDate(call.path)) =>
        /\ call.done.ret = Err
        /\ call.done.MkdirAll = <<>>
        /\ call.done.iget = <<>>
        /\ call.done.makeDownloadCmd = <<>>
        /\ call.done.disk = {}
        /\ ~Fetches(call.path, call.env.mkdir)
        /\ ~Emits(call.done.ret)

C12_Witness ==
    /\ Returned
    /\ call.path = Stray
    /\ call.env.mkdir /\ call.env.exit = 0 /\ call.env.arch = aGood /\ call.env.cmd

\* the part of the path that follows the first occurrence of the date string
AfterDate(path) ==
    LET i == CHOOSE k \in 1..Len(path) :
                 /\ OccursAt(path, opts_date, k)
                 /\ \A j \in 1..(k - 1) : ~OccursAt(path, opts_date, j)
    IN  SubSeq(path, i + Len(opts_date), Len(path))

\* the positions of the "/" of s
Slashes(s) == {k \in 1..Len(s) : s[k] = "/"}

\* s less its last directory: "/a/b/c" becomes "/a/c"
UpOne(s) ==
    LET k == CHOOSE x \in Slashes(s) : \A y \in Slashes(s) : y <= x
        j == CHOOSE x \in Slashes(s) \ {k} : \A y \in Slashes(s) \ {k} : y <= x
    IN  SubSeq(s, 1, j) \o SubSeq(s, k + 1, Len(s))

\* <root>/<date><what follows the date>, one directory up for an IMA file
Destination(path) ==
    LET to == opts_ddir \o <<"/">> \o opts_date \o AfterDate(path)
    IN  IF HasSuffix(path, <<".", "I", "M", "A">>) THEN UpOne(to) ELSE to

\* C13: the directory made and the destination given to iget are those of
\* <root>/<date>/<what follows the first date string in the path>, moved up
\* one directory when the path ends in .IMA and only then.
C13_Destination ==
    (Returned /\ NamesDate(call.path)) =>
        LET to == Destination(call.path) IN
        /\ call.done.MkdirAll = <<SubSeq(to, 1, LastSlash(to) - 1)>>
        /\ call.env.mkdir => call.done.iget = <<<<call.path, to>>>>

\* /r/20240101/x/001-a/f.IMA is fetched to /d/20240101/x/f.IMA
C13_Witness ==
    /\ Returned
    /\ call.path = Row(cDeep, dIma)
    /\ call.done.iget =
          <<<<call.path, opts_ddir \o <<"/">> \o opts_date \o <<"/", "x", "/">> \o dIma>>>>

\* the call has fetched an object that is neither a zip file nor an IMA file
\* and reads as a gzip stream
Unpacks ==
    /\ Returned /\ NamesDate(call.path)
    /\ ~HasSuffix(call.path, <<".", "z", "i", "p">>)
    /\ ~HasSuffix(call.path, <<".", "I", "M", "A">>)
    /\ call.env.mkdir /\ call.env.exit = 0
    /\ call.env.arch.open /\ call.env.arch.gzip

\* the directory and the last element of a path, as written
Folder(s) == SubSeq(s, 1, LastSlash(s) - 1)

Leaf(s) == SubSeq(s, LastSlash(s) + 1, Len(s))

\* the entries of the archive before its first regular file are not regular
\* files, and that file can be written
FirstRegular(entries, k) ==
    /\ entries[k].Typeflag = "reg" /\ entries[k].copy
    /\ \A j \in 1..(k - 1) : entries[j].Typeflag # "reg"

\* C14: of an archive whose first regular file is entry k, that entry alone
\* is extracted, under its base name into the directory of the archive; its
\* path is returned; the archive is no longer on disk.
C14_FirstRegularFile ==
    Unpacks =>
        LET entries == call.env.arch.entries
            loc     == Destination(call.path)
        IN  \A k \in DOMAIN entries :
                FirstRegular(entries, k) =>
                    LET fdicom == Folder(loc) \o <<"/">> \o Leaf(entries[k].Name) IN
                    /\ call.done.ret = Ok(fdicom)
                    /\ call.done.disk \ CmdFile(Folder(loc), TRUE) = {fdicom}
                    /\ loc \notin call.done.disk

\* [dir/, fileA, fileB] fetched to /d/20240101/x/s.tar.gz yields /d/20240101/x/A
C14_Witness ==
    /\ Unpacks
    /\ call.path = Row(cN, dTgz)
    /\ call.env.arch = aGood
    /\ call.done.ret = Ok(opts_ddir \o <<"/">> \o opts_date \o <<"/", "x", "/", "A">>)

\* C15: an archive that ends without a regular file gives the error and
\* nothing else: no file extracted, makeDownloadCmd not called, no cmd.sh, and
\* the worker sends nothing.
C15_EmptyArchive ==
    (/\ Unpacks
     /\ call.env.arch.end = "EOF"
     /\ \A k \in DOMAIN call.env.arch.entries : call.env.arch.entries[k].Typeflag # "reg")
        => /\ call.done.ret = Err
           /\ call.done.makeDownloadCmd = <<>>
           /\ call.done.disk = {}
           /\ ~Emits(call.done.ret)

\* an archive that holds one directory and nothing else
C15_Witness ==
    /\ Unpacks
    /\ call.path = Row(cN, dTgz)
    /\ call.env.arch = aDirs
    /\ call.env.cmd
    /\ call.done.ret = Err

\* iget has fetched the object of the call
FetchedOk == Returned /\ NamesDate(call.path) /\ call.env.mkdir /\ call.env.exit = 0

BothReturned == FetchedOk /\ call.extract.pc = "returned"

\* the two give the same kind, the same path or error, and both keep or both
\* remove the fetched file
SameOutcome ==
    LET loc == call.done.iget[1][2] IN
    /\ KindOf(call.extract.extractor) = InlineKind(loc)
    /\ call.extract.ret = call.done.ret
    /\ (loc \in call.extract.disk) <=> (loc \in call.done.disk)

\* C20 as stated: for every fetched path, the extractor GetDicomExtractor
\* selects and the suffix tests of downloadDicom give the same kind, the same
\* returned path or error and the same removal or retention of the file.
C20_SameForEveryPath == BothReturned => SameOutcome

\* C20: for a fetched path that ends in .tar.gz, .zip or .IMA, the extractor
\* GetDicomExtractor selects and the suffix tests of downloadDicom give the
\* same kind, the same returned path or error and the same removal or
\* retention of the file; for a path with any other suffix downloadDicom
\* unpacks the file while the extractor returns it as it is.
C20_SameForKnownSuffixes ==
    BothReturned =>
        LET loc == call.done.iget[1][2] IN
        IF \/ HasSuffix(loc, <<".", "t", "a", "r", ".", "g", "z">>)
           \/ HasSuffix(loc, <<".", "z", "i", "p">>)
           \/ HasSuffix(loc, <<".", "I", "M", "A">>)
        THEN SameOutcome
        ELSE /\ InlineKind(loc) = "CompressedArchive"
             /\ call.extract.extractor = "DicomExtractorIgnore"
             /\ call.extract.ret = Ok(loc)
             /\ loc \in call.extract.disk
             /\ call.done.ret # Ok(loc)

\* a well-formed .tar.gz archive has been unpacked and removed by both
C20_Witness ==
    /\ BothReturned
    /\ call.path = Row(cN, dTgz)
    /\ call.env.arch = aGood
    /\ call.extract.extractor = "DicomExtractorTgz"
    /\ call.extract.ret = call.done.ret
    /\ call.done.ret.kind = "ok"
    /\ call.done.iget[1][2] \notin call.extract.disk

=============================================================================
